---- MODULE Spec2Model ----
(***************************************************************************)
(* Model of the rule_engine crate (src/src/lib.rs, with main.rs as the     *)
(* driver): the three-valued Status, the Constraint checks over string     *)
(* facts, the Rule tree built by the constructor functions and the         *)
(* recursive evaluator Rule::check.                                        *)
(*                                                                         *)
(* src/src/rule.rs and src/src/constraint.rs hold the same Rule::check and  *)
(* Constraint::check, with isize for i32; the model follows lib.rs, the    *)
(* crate root whose constructor functions main.rs calls.                   *)
(*                                                                         *)
(* A Rust String is a sequence of one-character strings, so that parsing   *)
(* and lower-casing are computed character by character.  A usize is four  *)
(* 16-bit limbs (least significant first), so that the subtraction in the  *)
(* NumberOf arm keeps its 64-bit width.                                    *)
(***************************************************************************)
EXTENDS Integers, Sequences, FiniteSets, TLC

VARIABLES
    stack,            \* Rule values built so far and not yet owned by a parent
    tree,             \* the finished rule tree (main.rs `let tree`), or NoRule
    facts,            \* the BTreeMap<String, String> handed to check
    result,           \* what the last call of tree.check(&facts) produced
    overflow_checks   \* whether the build panics on integer overflow

vars == <<stack, tree, facts, result, overflow_checks>>

(***************************************************************************)
(* Bounds of the model.                                                    *)
(***************************************************************************)
MaxNodes == 3         \* nodes a rule tree (and the stack) may hold
MaxN == 2             \* largest threshold handed to n_of

(***************************************************************************)
(* Status and its operators.                                               *)
(***************************************************************************)
Met == "Met"
NotMet == "NotMet"
Unknown == "Unknown"
Status == {Met, NotMet, Unknown}

\* BitAnd with the Unknown arm tried before the NotMet arm
BitAndUnknownWins(self, rhs) ==
    IF self = Met /\ rhs = Met THEN Met
    ELSE IF self = Unknown \/ rhs = Unknown THEN Unknown
    ELSE NotMet

\* BitAnd without the `(_, Status::NotMet)` pattern
BitAndFirstOperand(self, rhs) ==
    IF self = Met /\ rhs = Met THEN Met
    ELSE IF self = NotMet THEN NotMet
    ELSE Unknown

BitAnd(self, rhs) ==
    IF self = Met /\ rhs = Met THEN Met
    ELSE IF self = NotMet \/ rhs = NotMet THEN NotMet
    ELSE Unknown

\* BitOr with the Unknown arm tried before the Met arm
BitOrUnknownWins(self, rhs) ==
    IF self = NotMet /\ rhs = NotMet THEN NotMet
    ELSE IF self = Unknown \/ rhs = Unknown THEN Unknown
    ELSE Met

BitOr(self, rhs) ==
    IF self = NotMet /\ rhs = NotMet THEN NotMet
    ELSE IF self = Met \/ rhs = Met THEN Met
    ELSE Unknown

(***************************************************************************)
(* Strings.                                                                *)
(***************************************************************************)
Digits == <<"0", "1", "2", "3", "4", "5", "6", "7", "8", "9">>
UpperCase == <<"A", "B", "C", "D", "E", "F", "G", "H", "I", "J", "K", "L", "M",
               "N", "O", "P", "Q", "R", "S", "T", "U", "V", "W", "X", "Y", "Z">>
LowerCase == <<"a", "b", "c", "d", "e", "f", "g", "h", "i", "j", "k", "l", "m",
               "n", "o", "p", "q", "r", "s", "t", "u", "v", "w", "x", "y", "z">>

IsDigit(c) == \E i \in 1..10 : Digits[i] = c
DigitVal(c) == (CHOOSE i \in 1..10 : Digits[i] = c) - 1

\* str::to_lowercase on the ASCII letters
LowerChar(c) ==
    IF \E i \in 1..26 : UpperCase[i] = c
    THEN LowerCase[CHOOSE i \in 1..26 : UpperCase[i] = c]
    ELSE c
ToLowercase(val) == [i \in 1..Len(val) |-> LowerChar(val[i])]

I32_MAX == 2147483647
I32_MIN == -I32_MAX - 1

Ok(v) == [ok |-> TRUE, val |-> v]
Err == [ok |-> FALSE, val |-> 0]

\* The digit loop of str::parse::<i32>: the accumulator grows away from zero
\* (towards I32_MAX for a positive number, towards I32_MIN for a negative
\* one) and a step that would leave the i32 range is an error.  The
\* comparisons are arranged so that no intermediate value leaves the range.
RECURSIVE ParseDigits(_, _, _, _)
ParseDigits(val, i, acc, positive) ==
    IF i > Len(val) THEN Ok(acc)
    ELSE IF ~IsDigit(val[i]) THEN Err
    ELSE LET d == DigitVal(val[i]) IN
         IF positive
         THEN IF acc > (I32_MAX - d) \div 10 THEN Err
              ELSE ParseDigits(val, i + 1, acc * 10 + d, positive)
         ELSE IF acc < -(I32_MAX \div 10)
                 \/ (acc = -(I32_MAX \div 10) /\ d > (I32_MAX % 10) + 1) THEN Err
              ELSE ParseDigits(val, i + 1, acc * 10 - d, positive)

\* val.parse::<i32>(): an optional sign, then at least one digit
ParseI32(val) ==
    IF Len(val) = 0 THEN Err
    ELSE IF val[1] = "-" \/ val[1] = "+"
    THEN IF Len(val) = 1 THEN Err
         ELSE ParseDigits(val, 2, 0, val[1] = "+")
    ELSE ParseDigits(val, 1, 0, TRUE)

(***************************************************************************)
(* usize: four 16-bit limbs, least significant first.                      *)
(***************************************************************************)
LimbBase == 2 ^ 16
UsizeLimbs == 4

\* a count of the model (below 2^31) as a usize
Usize(x) == [k \in 1..UsizeLimbs |->
                IF k = 1 THEN x % LimbBase
                ELSE IF k = 2 THEN x \div LimbBase
                ELSE 0]

\* the borrow into limb k of a - b
RECURSIVE Borrow(_, _, _)
Borrow(a, b, k) ==
    IF k = 1 THEN 0
    ELSE IF a[k - 1] - b[k - 1] - Borrow(a, b, k - 1) < 0 THEN 1 ELSE 0

\* a - b modulo 2^64: what `-` computes when overflow checks are off
WrappingSub(a, b) ==
    [k \in 1..UsizeLimbs |-> (a[k] - b[k] - Borrow(a, b, k)) % LimbBase]

\* whether a - b leaves the usize range (the borrow out of the last limb)
SubOverflows(a, b) == Borrow(a, b, UsizeLimbs + 1) = 1

\* a > b on usize
RECURSIVE UsizeGtFrom(_, _, _)
UsizeGtFrom(a, b, k) ==
    IF k = 0 THEN FALSE
    ELSE IF a[k] # b[k] THEN a[k] > b[k]
    ELSE UsizeGtFrom(a, b, k - 1)
UsizeGt(a, b) == UsizeGtFrom(a, b, UsizeLimbs)

\* format!("{}", n) for a usize of the model
RECURSIVE FormatUsize(_)
FormatUsize(n) ==
    IF n < 10 THEN <<Digits[n + 1]>>
    ELSE FormatUsize(n \div 10) \o <<Digits[(n % 10) + 1]>>

(***************************************************************************)
(* Constraint.                                                             *)
(***************************************************************************)
StringEquals(s) == [kind |-> "StringEquals", s |-> s]
IntEquals(i)    == [kind |-> "IntEquals", i |-> i]
IntRange(start, end) == [kind |-> "IntRange", start |-> start, end |-> end]
Boolean(b)      == [kind |-> "Boolean", b |-> b]

True == <<"t", "r", "u", "e">>

\* Constraint::check with a failed parse reported as Unknown
ConstraintCheckParseUnknown(constraint, val) ==
    CASE constraint.kind = "StringEquals" ->
            IF val = constraint.s THEN Met ELSE NotMet
      [] constraint.kind = "IntEquals" ->
            LET parse_res == ParseI32(val) IN
            IF parse_res.ok
            THEN IF parse_res.val = constraint.i THEN Met ELSE NotMet
            ELSE Unknown
      [] constraint.kind = "IntRange" ->
            LET parse_res == ParseI32(val) IN
            IF parse_res.ok
            THEN IF constraint.start <= parse_res.val /\ parse_res.val <= constraint.end
                 THEN Met ELSE NotMet
            ELSE Unknown
      [] constraint.kind = "Boolean" ->
            LET bool_val == (ToLowercase(val) = True) IN
            IF bool_val = constraint.b THEN Met ELSE NotMet

\* Constraint::check
ConstraintCheck(constraint, val) ==
    CASE constraint.kind = "StringEquals" ->
            IF val = constraint.s THEN Met ELSE NotMet
      [] constraint.kind = "IntEquals" ->
            LET parse_res == ParseI32(val) IN
            IF parse_res.ok
            THEN IF parse_res.val = constraint.i THEN Met ELSE NotMet
            ELSE NotMet
      [] constraint.kind = "IntRange" ->
            LET parse_res == ParseI32(val) IN
            IF parse_res.ok
            THEN IF constraint.start <= parse_res.val /\ parse_res.val <= constraint.end
                 THEN Met ELSE NotMet
            ELSE NotMet
      [] constraint.kind = "Boolean" ->
            LET bool_val == (ToLowercase(val) = True) IN
            IF bool_val = constraint.b THEN Met ELSE NotMet

(***************************************************************************)
(* Rule and its constructor functions.                                     *)
(***************************************************************************)
NoRule == [kind |-> "None"]

and(rules) == [kind |-> "And", rules |-> rules]
or(rules)  == [kind |-> "Or", rules |-> rules]
n_of(n, rules) == [kind |-> "NumberOf", n |-> n, rules |-> rules]
Leaf(description, field, constraint) ==
    [kind |-> "Rule", desc |-> description, field |-> field, constraint |-> constraint]
string_equals(description, field, val) == Leaf(description, field, StringEquals(val))
int_equals(description, field, val) == Leaf(description, field, IntEquals(val))
int_range(description, field, start, end) == Leaf(description, field, IntRange(start, end))
boolean(description, field, val) == Leaf(description, field, Boolean(val))

IsLeaf(rule) == rule.kind = "Rule"

(***************************************************************************)
(* RuleResult and Rule::check.                                             *)
(***************************************************************************)
RuleResult(name, status, children) ==
    [name |-> name, status |-> status, children |-> children]

\* what a call that panics leaves in place of a RuleResult
Panic == [panic |-> "attempt to subtract with overflow"]
Panicked(r) == "panic" \in DOMAIN r

NameAnd == <<"A", "n", "d">>
NameOr == <<"O", "r">>
NameAtLeast(count) ==
    <<"A", "t", " ", "l", "e", "a", "s", "t", " ">> \o FormatUsize(count)
        \o <<" ", "o", "f">>

\* the fold of `status = status & r.status` over the children, in order
RECURSIVE FoldAnd(_, _, _)
FoldAnd(status, children, i) ==
    IF i > Len(children) THEN status
    ELSE FoldAnd(BitAnd(status, children[i].status), children, i + 1)

\* the fold of `status = status | r.status` over the children, in order
RECURSIVE FoldOr(_, _, _)
FoldOr(status, children, i) ==
    IF i > Len(children) THEN status
    ELSE FoldOr(BitOr(status, children[i].status), children, i + 1)

\* met_count / failed_count after the inspect closure has seen every child
RECURSIVE CountStatus(_, _, _)
CountStatus(children, s, i) ==
    IF i > Len(children) THEN 0
    ELSE (IF children[i].status = s THEN 1 ELSE 0) + CountStatus(children, s, i + 1)

\* whether the NumberOf arm panics: `children.len() - count` is a usize
\* subtraction, evaluated when met_count < count, and in a build with
\* overflow checks it panics when it overflows
NumberOfPanics(count, children, checks) ==
    /\ CountStatus(children, Met, 1) < count
    /\ checks
    /\ SubOverflows(Usize(Len(children)), Usize(count))

\* NumberOfStatus with `failed_count >= children.len() - count`
NumberOfStatusEarlyNotMet(count, children) ==
    LET met_count == CountStatus(children, Met, 1)
        failed_count == CountStatus(children, NotMet, 1)
    IN  IF met_count >= count THEN Met
        ELSE IF UsizeGt(Usize(failed_count + 1),
                        WrappingSub(Usize(Len(children)), Usize(count)))
             THEN NotMet
        ELSE Unknown

\* the status of a NumberOf node that does not panic; without overflow
\* checks the subtraction wraps
NumberOfStatus(count, children) ==
    LET met_count == CountStatus(children, Met, 1)
        failed_count == CountStatus(children, NotMet, 1)
    IN  IF met_count >= count THEN Met
        ELSE IF UsizeGt(Usize(failed_count),
                        WrappingSub(Usize(Len(children)), Usize(count)))
             THEN NotMet
        ELSE Unknown

\* LeafStatus with a missing field reported as a failed check
LeafStatusMissingNotMet(field, constraint, info) ==
    IF field \in DOMAIN info THEN ConstraintCheck(constraint, info[field])
    ELSE NotMet

\* the status of a leaf
LeafStatus(field, constraint, info) ==
    IF field \in DOMAIN info THEN ConstraintCheck(constraint, info[field])
    ELSE Unknown

AnyPanicked(children) == \E i \in 1..Len(children) : Panicked(children[i])

RECURSIVE Check(_, _, _)

\* CheckChildren that stops after the first child that is NotMet
CheckChildrenShortCircuit(rules, info, checks) ==
    LET all == [i \in 1..Len(rules) |-> Check(rules[i], info, checks)]
        failed == {i \in 1..Len(rules) : ~Panicked(all[i]) /\ all[i].status = NotMet}
        last == IF failed = {} THEN Len(rules)
                ELSE CHOOSE i \in failed : \A j \in failed : i <= j
    IN  [i \in 1..last |-> all[i]]

\* `rules.iter().map(|c| c.check(info)) ... .collect()`: every child is
\* checked, in order
CheckChildren(rules, info, checks) ==
    [i \in 1..Len(rules) |-> Check(rules[i], info, checks)]

\* Rule::check.  A panic in a child unwinds through every ancestor.
Check(self, info, checks) ==
    IF self.kind = "Rule"
    THEN RuleResult(self.desc, LeafStatus(self.field, self.constraint, info), <<>>)
    ELSE LET children == CheckChildren(self.rules, info, checks)
         IN  IF AnyPanicked(children) THEN Panic
             ELSE CASE self.kind = "And" ->
                         RuleResult(NameAnd, FoldAnd(Met, children, 1), children)
                    [] self.kind = "Or" ->
                         RuleResult(NameOr, FoldOr(NotMet, children, 1), children)
                    [] self.kind = "NumberOf" ->
                         IF NumberOfPanics(self.n, children, checks) THEN Panic
                         ELSE RuleResult(NameAtLeast(self.n),
                                         NumberOfStatus(self.n, children), children)

(***************************************************************************)
(* The inputs of the model.                                                *)
(***************************************************************************)
JohnDoe == <<"J", "o", "h", "n", " ", "D", "o", "e">>
JaneDoe == <<"J", "a", "n", "e", " ", "D", "o", "e">>
Ten == <<"1", "0">>
Twelve == <<"1", "2">>

DescName == <<"N", "a", "m", "e", " ", "i", "s", " ", "J", "o", "h", "n", " ", "D", "o", "e">>
DescFav == <<"F", "a", "v", "o", "r", "i", "t", "e", " ", "n", "u", "m", "b", "e", "r",
             " ", "i", "s", " ", "1", "0">>
DescRange == <<"F", "a", "v", " ", "n", "u", "m", "b", "e", "r", " ", "b", "e", "t", "w",
               "e", "e", "n", " ", "1", "1", " ", "a", "n", "d", " ", "1", "6">>
DescFlag == <<"N", "a", "m", "e", " ", "i", "s", " ", "n", "o", "t", " ", "t", "r", "u", "e">>

FieldNames == {"name", "fav_number"}

\* The one value Spec and SpecFold insert.  It makes the string_equals leaf
\* NotMet and the boolean leaf Met on "name", the int_equals leaf Met and
\* the int_range leaf NotMet on "fav_number", so the children of a node take
\* every combination of the three statuses.
Values == {Ten}

EmptyMap == [f \in {} |-> <<>>]
Insert(map, key, value) ==
    [f \in DOMAIN map \cup {key} |-> IF f = key THEN value ELSE map[f]]

NoResult == [info |-> EmptyMap, called |-> FALSE]
CallResult(info, value) == [info |-> info, called |-> TRUE, value |-> value]

(***************************************************************************)
(* The state machine: a caller builds rules bottom-up with the             *)
(* constructor functions, binds the finished tree, fills the fact map and  *)
(* calls check.                                                            *)
(***************************************************************************)
RECURSIVE NodeCount(_)
RECURSIVE NodeCountAll(_, _)
NodeCountAll(rules, i) ==
    IF i > Len(rules) THEN 0 ELSE NodeCount(rules[i]) + NodeCountAll(rules, i + 1)
NodeCount(rule) ==
    IF IsLeaf(rule) THEN 1 ELSE 1 + NodeCountAll(rule.rules, 1)

\* a constructor may run while the rules built so far hold fewer than limit nodes
Building(limit) == tree = NoRule /\ NodeCountAll(stack, 1) < limit

\* the last k rules of the stack, in order, and what is left below them
Top(k) == SubSeq(stack, Len(stack) - k + 1, Len(stack))
Below(k) == SubSeq(stack, 1, Len(stack) - k)

\* what a constructor call leaves: the rules below the ones it took
\* ownership of, then the rule it returned
Built(below, rule) ==
    /\ stack' = Append(below, rule)
    /\ UNCHANGED <<tree, facts, result, overflow_checks>>

AndRule ==
    \E k \in 0..Len(stack) :
        Building(MaxNodes) /\ Built(Below(k), and(Top(k)))
OrRule ==
    \E k \in 0..Len(stack) :
        Building(MaxNodes) /\ Built(Below(k), or(Top(k)))
NumberOfRule ==
    \E k \in 0..Len(stack), n \in 0..MaxN :
        Building(MaxNodes) /\ Built(Below(k), n_of(n, Top(k)))

\* `let tree = ...`: the one rule left on the stack becomes the tree
LetTree ==
    /\ tree = NoRule
    /\ Len(stack) = 1
    /\ tree' = stack[1]
    /\ stack' = <<>>
    /\ UNCHANGED <<facts, result, overflow_checks>>

\* facts.insert(key, value).  The actions insert only keys not yet in the
\* map, so the facts of a later call extend the facts of every earlier one.
Inserted(key, value) ==
    /\ facts' = Insert(facts, key, value)
    /\ UNCHANGED <<stack, tree, result, overflow_checks>>

\* `let result = tree.check(&facts)`
CheckTree ==
    /\ tree # NoRule
    /\ result' = CallResult(facts, Check(tree, facts, overflow_checks))
    /\ UNCHANGED <<stack, tree, facts, overflow_checks>>

Init ==
    /\ stack = <<>>
    /\ tree = NoRule
    /\ facts = EmptyMap
    /\ result = NoResult
    /\ overflow_checks \in BOOLEAN

(***************************************************************************)
(* Spec: every rule tree of at most MaxNodes nodes over one leaf of each   *)
(* kind, checked against every fact map over Values.                       *)
(***************************************************************************)
StringEqualsRule ==
    Building(MaxNodes) /\ Built(stack, string_equals(DescName, "name", JohnDoe))
IntEqualsRule ==
    Building(MaxNodes) /\ Built(stack, int_equals(DescFav, "fav_number", 10))
IntRangeRule ==
    Building(MaxNodes) /\ Built(stack, int_range(DescRange, "fav_number", 11, 16))
BooleanRule ==
    Building(MaxNodes) /\ Built(stack, boolean(DescFlag, "name", FALSE))
InsertFact ==
    \E key \in FieldNames \ DOMAIN facts, value \in Values :
        tree # NoRule /\ Inserted(key, value)

Next ==
    \/ StringEqualsRule
    \/ IntEqualsRule
    \/ IntRangeRule
    \/ BooleanRule
    \/ AndRule
    \/ OrRule
    \/ NumberOfRule
    \/ LetTree
    \/ InsertFact
    \/ CheckTree

Spec == Init /\ [][Next]_vars

(***************************************************************************)
(* SpecFold: every And and Or over at most MaxNodes leaves, the leaves     *)
(* taking the three statuses independently of their order.                 *)
(***************************************************************************)
FlatStringEquals ==
    Building(MaxNodes) /\ Built(stack, string_equals(DescName, "name", JohnDoe))
FlatIntEquals ==
    Building(MaxNodes) /\ Built(stack, int_equals(DescFav, "fav_number", 10))
FlatIntRange ==
    Building(MaxNodes) /\ Built(stack, int_range(DescRange, "fav_number", 11, 16))
FlatAndRule ==
    tree = NoRule /\ (\A i \in 1..Len(stack) : IsLeaf(stack[i])) /\ Built(<<>>, and(stack))
FlatOrRule ==
    tree = NoRule /\ (\A i \in 1..Len(stack) : IsLeaf(stack[i])) /\ Built(<<>>, or(stack))

NextFold ==
    \/ FlatStringEquals
    \/ FlatIntEquals
    \/ FlatIntRange
    \/ FlatAndRule
    \/ FlatOrRule
    \/ LetTree
    \/ InsertFact
    \/ CheckTree

SpecFold == Init /\ [][NextFold]_vars

(***************************************************************************)
(* SpecLeaf: a single leaf of any kind, bound to any field, checked        *)
(* against fact maps over LeafValues.                                      *)
(***************************************************************************)
Empty == <<>>
Abc == <<"a", "b", "c">>
TrueUpper == <<"T", "R", "U", "E">>
TrueMixed == <<"T", "r", "u", "e">>
FalseLower == <<"f", "a", "l", "s", "e">>
MinusFive == <<"-", "5">>
PlusTen == <<"+", "1", "0">>
TenSpace == <<"1", "0", " ">>
TooBig == <<"2", "1", "4", "7", "4", "8", "3", "6", "4", "8">>
Sixteen == <<"1", "6">>
Seventeen == <<"1", "7">>

LeafValues == {JohnDoe, JaneDoe, Ten, Sixteen, Seventeen, Empty, Abc, True, TrueUpper,
               TrueMixed, FalseLower, MinusFive, PlusTen, TenSpace, TooBig}

LeafStringEquals ==
    \E field \in FieldNames, val \in {JohnDoe, Empty, True} :
        Building(1) /\ Built(stack, string_equals(DescName, field, val))
LeafIntEquals ==
    \E field \in FieldNames, val \in {10, -5, I32_MAX} :
        Building(1) /\ Built(stack, int_equals(DescFav, field, val))
LeafIntRange ==
    \E field \in FieldNames, range \in {<<11, 16>>, <<-5, 10>>, <<16, 11>>} :
        Building(1) /\ Built(stack, int_range(DescRange, field, range[1], range[2]))
LeafBoolean ==
    \E field \in FieldNames, val \in BOOLEAN :
        Building(1) /\ Built(stack, boolean(DescFlag, field, val))
LeafInsertFact ==
    \E key \in FieldNames \ DOMAIN facts, value \in LeafValues :
        tree # NoRule /\ Inserted(key, value)

NextLeaf ==
    \/ LeafStringEquals
    \/ LeafIntEquals
    \/ LeafIntRange
    \/ LeafBoolean
    \/ LetTree
    \/ LeafInsertFact
    \/ CheckTree

SpecLeaf == Init /\ [][NextLeaf]_vars

(***************************************************************************)
(* SpecMain: the tree of main.rs, checked against fact maps over           *)
(* MainValues.                                                             *)
(***************************************************************************)
MainValues == {JohnDoe, JaneDoe, Ten, Twelve, Abc}

\* main.rs lines 4-10
MainTree ==
    /\ tree = NoRule
    /\ tree' = and(<<string_equals(DescName, "name", JohnDoe),
                     or(<<int_equals(DescFav, "fav_number", 10),
                          int_range(DescRange, "fav_number", 11, 16)>>)>>)
    /\ UNCHANGED <<stack, facts, result, overflow_checks>>

MainInsertFact ==
    \E key \in FieldNames \ DOMAIN facts, value \in MainValues :
        tree # NoRule /\ Inserted(key, value)

NextMain ==
    \/ MainTree
    \/ MainInsertFact
    \/ CheckTree

SpecMain == Init /\ [][NextMain]_vars

(***************************************************************************)
(* What the claims speak about.                                            *)
(***************************************************************************)
\* the last call of check returned a RuleResult
Returned == result.called /\ ~Panicked(result.value)

\* every node of a rule tree paired with the node of the result tree at the
\* same place, parents before children
RECURSIVE NodePairs(_, _)
RECURSIVE ChildPairs(_, _, _)
ChildPairs(rule, res, i) ==
    IF i > Len(rule.rules) \/ i > Len(res.children) THEN <<>>
    ELSE NodePairs(rule.rules[i], res.children[i]) \o ChildPairs(rule, res, i + 1)
NodePairs(rule, res) ==
    <<[rule |-> rule, res |-> res]>>
        \o (IF IsLeaf(rule) THEN <<>> ELSE ChildPairs(rule, res, 1))

\* the pairs of the last call whose rule is of the given kind
PairsOfKind(kind) ==
    LET pairs == NodePairs(tree, result.value)
    IN  {pairs[i] : i \in {j \in 1..Len(pairs) : pairs[j].rule.kind = kind}}

HowMany(children, s) ==
    Cardinality({i \in 1..Len(children) : children[i].status = s})
Some(children, s) == \E i \in 1..Len(children) : children[i].status = s
Every(children, s) == \A i \in 1..Len(children) : children[i].status = s

Perms(n) == {p \in [1..n -> 1..n] : \A i, j \in 1..n : p[i] = p[j] => i = j}
Permuted(children, p) == [i \in 1..Len(children) |-> children[p[i]]]

\* C1: check cannot fail: every call returns a RuleResult whose status is
\* Met, NotMet or Unknown, whatever the tree (NumberOf thresholds of 0 or
\* above the number of children included) and whatever the facts.
C1_CheckCannotFail ==
    result.called =>
        /\ ~Panicked(result.value)
        /\ result.value.status \in Status

\* the status the documentation of n_of gives a NumberOf node
NumberOfDocumented(n, children) ==
    IF HowMany(children, Met) >= n THEN Met
    ELSE IF HowMany(children, NotMet) >= Len(children) - n + 1 THEN NotMet
    ELSE Unknown

\* C2: whenever check returns, every NumberOf(n, children) node is Met if at
\* least n children are Met, else NotMet if at least children.length - n + 1
\* children are NotMet (Met and Unknown children together are fewer than n),
\* else Unknown.
C2_NumberOfStatus ==
    Returned =>
        \A pair \in PairsOfKind("NumberOf") :
            /\ pair.res.status = NumberOfDocumented(pair.rule.n, pair.res.children)
            /\ (pair.res.status = NotMet) =
                  (HowMany(pair.res.children, Met) + HowMany(pair.res.children, Unknown)
                       < pair.rule.n)

\* C3: whenever check returns, a NumberOf(n, children) node with n above the
\* number of children is Met only if all children are Met, and is NotMet
\* when every one of its (one or more) children is NotMet.
C3_ThresholdAboveChildren ==
    Returned =>
        \A pair \in PairsOfKind("NumberOf") :
            pair.rule.n > Len(pair.rule.rules) =>
                /\ pair.res.status = Met => Every(pair.res.children, Met)
                /\ (Len(pair.res.children) >= 1 /\ Every(pair.res.children, NotMet))
                       => pair.res.status = NotMet

\* C4: whenever check returns, every And node is NotMet if some child is
\* NotMet (Unknown children or not), Met if and only if every child is Met
\* (so And([]) is Met), and Unknown otherwise.
C4_AndStatus ==
    Returned =>
        \A pair \in PairsOfKind("And") :
            LET children == pair.res.children IN
            /\ Len(children) = Len(pair.rule.rules)
            /\ pair.res.status =
                  IF Some(children, NotMet) THEN NotMet
                  ELSE IF Every(children, Met) THEN Met
                  ELSE Unknown

\* an And whose first child is Unknown and second child NotMet was checked
C4_Witness ==
    /\ Returned
    /\ tree.kind = "And"
    /\ Len(result.value.children) = 2
    /\ result.value.children[1].status = Unknown
    /\ result.value.children[2].status = NotMet
    /\ result.value.status = NotMet

\* C5: whenever check returns, every Or node is Met if some child is Met,
\* NotMet if and only if every child is NotMet (so Or([]) is NotMet), and
\* Unknown otherwise.
C5_OrStatus ==
    Returned =>
        \A pair \in PairsOfKind("Or") :
            LET children == pair.res.children IN
            /\ Len(children) = Len(pair.rule.rules)
            /\ pair.res.status =
                  IF Some(children, Met) THEN Met
                  ELSE IF Every(children, NotMet) THEN NotMet
                  ELSE Unknown

\* an Or whose first child is Unknown and second child Met was checked
C5_Witness ==
    /\ Returned
    /\ tree.kind = "Or"
    /\ Len(result.value.children) = 2
    /\ result.value.children[1].status = Unknown
    /\ result.value.children[2].status = Met
    /\ result.value.status = Met

\* C6: & and | on Status are associative and commutative, Met is the
\* identity of & and NotMet the identity of |, and whenever check returns,
\* the status of every And and Or node is what the fold gives for every
\* permutation of its children.
C6_FoldOrderFree ==
    /\ \A a, b, c \in Status :
          /\ BitAnd(a, b) = BitAnd(b, a)
          /\ BitOr(a, b) = BitOr(b, a)
          /\ BitAnd(BitAnd(a, b), c) = BitAnd(a, BitAnd(b, c))
          /\ BitOr(BitOr(a, b), c) = BitOr(a, BitOr(b, c))
          /\ BitAnd(Met, a) = a /\ BitAnd(a, Met) = a
          /\ BitOr(NotMet, a) = a /\ BitOr(a, NotMet) = a
    /\ Returned =>
          /\ \A pair \in PairsOfKind("And") :
                \A p \in Perms(Len(pair.res.children)) :
                    FoldAnd(Met, Permuted(pair.res.children, p), 1) = pair.res.status
          /\ \A pair \in PairsOfKind("Or") :
                \A p \in Perms(Len(pair.res.children)) :
                    FoldOr(NotMet, Permuted(pair.res.children, p), 1) = pair.res.status

\* an And or Or over three children, one of each status, was checked
C6_Witness ==
    /\ Returned
    /\ tree.kind \in {"And", "Or"}
    /\ Len(result.value.children) = 3
    /\ result.value.children[1].status = Unknown
    /\ result.value.children[2].status = Met
    /\ result.value.children[3].status = NotMet

\* C7: a checked leaf is Unknown if and only if its field is absent from the
\* facts: absent gives Unknown for every constraint kind, present gives Met
\* or NotMet for every constraint kind and every string.
C7_LeafUnknownIffAbsent ==
    (result.called /\ IsLeaf(tree)) =>
        /\ ~Panicked(result.value)
        /\ result.value.status \in Status
        /\ (result.value.status = Unknown) = (tree.field \notin DOMAIN result.info)

\* an integer leaf was checked against a present string that is no i32
C7_Witness ==
    /\ result.called
    /\ IsLeaf(tree)
    /\ tree.constraint.kind \in {"IntEquals", "IntRange"}
    /\ tree.field \in DOMAIN result.info
    /\ ~ParseI32(result.info[tree.field]).ok
    /\ result.value.status = NotMet

RECURSIVE RuleDepth(_)
RuleDepth(rule) ==
    IF IsLeaf(rule) \/ Len(rule.rules) = 0 THEN 1
    ELSE 1 + (CHOOSE d \in {RuleDepth(rule.rules[i]) : i \in 1..Len(rule.rules)} :
                 \A i \in 1..Len(rule.rules) : RuleDepth(rule.rules[i]) <= d)

RECURSIVE ResultDepth(_)
ResultDepth(res) ==
    IF Len(res.children) = 0 THEN 1
    ELSE 1 + (CHOOSE d \in {ResultDepth(res.children[i]) : i \in 1..Len(res.children)} :
                 \A i \in 1..Len(res.children) : ResultDepth(res.children[i]) <= d)

RECURSIVE Mirrors(_, _, _)
Mirrors(rule, res, info) ==
    IF IsLeaf(rule) THEN res.children = <<>> /\ res.name = rule.desc
    ELSE /\ Len(res.children) = Len(rule.rules)
         /\ \A i \in 1..Len(rule.rules) :
               /\ res.children[i] = Check(rule.rules[i], info, overflow_checks)
               /\ Mirrors(rule.rules[i], res.children[i], info)

\* C8: whenever check returns, the result tree mirrors the rule tree: a
\* combinator's result has as many children as the rule, in the same order,
\* each the evaluation of the corresponding child rule (none skipped once
\* the parent is decided), a leaf's result has none, and the depths agree.
C8_ResultMirrorsRule ==
    Returned =>
        /\ Mirrors(tree, result.value, result.info)
        /\ ResultDepth(result.value) = RuleDepth(tree)

\* an And was checked whose first child is NotMet, which decides it, and
\* whose second child has its result all the same
C8_Witness ==
    /\ Returned
    /\ tree.kind = "And"
    /\ Len(tree.rules) = 2
    /\ result.value.children[1].status = NotMet
    /\ Len(result.value.children) = 2
    /\ RuleDepth(tree) = 2

FactsJohnTen == Insert(Insert(EmptyMap, "name", JohnDoe), "fav_number", Ten)
FactsJaneTen == Insert(Insert(EmptyMap, "name", JaneDoe), "fav_number", Ten)
FactsTen == Insert(EmptyMap, "fav_number", Ten)

\* C9: the tree of main.rs is Met on {name: "John Doe", fav_number: "10"},
\* with its Or child Met and that child's first child Met; NotMet on
\* {name: "Jane Doe", fav_number: "10"}; Unknown on {fav_number: "10"}.
C9_MainTree ==
    result.called =>
        /\ ~Panicked(result.value)
        /\ result.info = FactsJohnTen =>
              /\ result.value.status = Met
              /\ result.value.children[2].status = Met
              /\ result.value.children[2].children[1].status = Met
        /\ result.info = FactsJaneTen => result.value.status = NotMet
        /\ result.info = FactsTen => result.value.status = Unknown

\* the tree of main.rs was checked against {fav_number: "10"}
C9_Witness ==
    /\ result.called
    /\ tree.kind = "And"
    /\ result.info = FactsTen
    /\ result.value.status = Unknown

Extends(more, less) ==
    /\ DOMAIN less \subseteq DOMAIN more
    /\ \A f \in DOMAIN less : more[f] = less[f]

\* every node decided in the earlier result has the same status in the later
RECURSIVE Keeps(_, _)
Keeps(earlier, later) ==
    /\ earlier.status \in {Met, NotMet} => later.status = earlier.status
    /\ Len(later.children) = Len(earlier.children)
    /\ \A i \in 1..Len(earlier.children) : Keeps(earlier.children[i], later.children[i])

\* C10: when the same tree is checked again against facts that extend the
\* facts of the call before, every node that was Met or NotMet keeps its
\* status; only Unknown nodes change.
C10_Monotone ==
    [][(/\ Returned
        /\ result'.called
        /\ tree' = tree
        /\ Extends(result'.info, result.info))
          => /\ ~Panicked(result'.value)
             /\ Keeps(result.value, result'.value)]_vars

\* a NumberOf was checked and is Unknown with one child NotMet and one
\* Unknown, and a fact has been added since
C10_Witness ==
    /\ Returned
    /\ tree.kind = "NumberOf"
    /\ result.value.status = Unknown
    /\ Some(result.value.children, NotMet)
    /\ Some(result.value.children, Unknown)
    /\ Extends(facts, result.info)
    /\ facts # result.info

====
